---- MODULE Spec2Model ----
(***************************************************************************)
(* A model of the packrat parsing engine of compiler/parser/parser.py:     *)
(* the Parser session (tokens, cursor, row, column, cache), the two        *)
(* primitives eat_token and consume_string, the decorators backtrackable   *)
(* and memoize, the combinators parse_all, opt_more, more, alt, and_ and   *)
(* not_, and the rule parse_name.                                          *)
(*                                                                         *)
(* Python values are records tagged by their type; an exception leaving a  *)
(* call is the outcome Raise(..).  Sub-patterns handed to a combinator are *)
(* records too: a literal string, a bound rule, or a closure over a        *)
(* combinator call.  The token list is 0-indexed in the source and         *)
(* 1-indexed here: tokens[i] of the source is TokenAt(i).                  *)
(*                                                                         *)
(* Spec is the engine with parse_name as its only rule, as in the source.  *)
(* SpecRules adds a caller's rule parse_pair, decorated the way parse_name *)
(* is and calling it, which is how a grammar layers rules on the engine.   *)
(***************************************************************************)
EXTENDS Integers, Sequences, FiniteSets, TLC

VARIABLES
    tokens,     \* Parser.tokens: the token records, fixed for the session
    cursor,     \* Parser.cursor
    row,        \* Parser.row
    column,     \* Parser.column
    cache,      \* Parser.cache: position -> (rule name -> cached result)
    pc,         \* the caller: "ready" to call, or "returned" from a call
    call,       \* the operation the caller invoked last, with its arguments
    pre,        \* the session state at the entry of that call
    outcome,    \* what that call returned (or raised)
    log,        \* the invocations made during that call, in order of exit
    history     \* per (position, rule) invoked so far in the session: the
                \* outcome of the first invocation, the runs of the rule body

vars ==
    <<tokens, cursor, row, column, cache, pc, call, pre, outcome, log, history>>

----------------------------------------------------------------------------
(* Bounds and inputs *)

MaxTokens == 2      \* longest token stream
MaxArgs == 2        \* longest list of sub-patterns given to a combinator

\* The tokens the lexer hands over: an identifier and a non-identifier.
TokenAlphabet ==
    { [kind |-> "IDENTIFIER", data |-> "x"],
      [kind |-> "OPERATOR",   data |-> "="] }

\* A stream as the lexer lays it out: the i-th token (from 0) is alone on
\* line i, indented by i, so that no two cursors share a row or a column
\* except the initial (0, -1) and the first token's (0, 0), which share the row.
TokenStream(body) ==
    [i \in DOMAIN body |->
        [kind   |-> body[i].kind,
         data   |-> body[i].data,
         row    |-> i - 1,
         column |-> i - 1]]

----------------------------------------------------------------------------
(* Python values *)

None == [tag |-> "None"]
TrueV == [tag |-> "True"]
IntV(i) == [tag |-> "Int", val |-> i]
ListV(items) == [tag |-> "List", items |-> items]
TupleV(index, token) == [tag |-> "Tuple", index |-> index, token |-> token]
Raise(exc) == [tag |-> "Raise", exc |-> exc]

\* raise ParserError(message, row, column)
ParserErrorV(line_info) ==
    [tag |-> "Raise", exc |-> "ParserError",
     row |-> line_info[1], column |-> line_info[2]]
IsParserError(v) == v.tag = "Raise" /\ v.exc = "ParserError"

IsNone(v) == v.tag = "None"
IsRaise(v) == v.tag = "Raise"
\* the call returned a value other than None
IsMatch(v) == ~IsNone(v) /\ ~IsRaise(v)

----------------------------------------------------------------------------
(* Sub-patterns: what a caller can pass in *args *)

Str(s) == [k |-> "str", s |-> s]
\* lambda: self.<k>(*args): the keyword ignores is not passed
Closure(k, args) == [k |-> k, args |-> args, kw |-> FALSE, ign |-> {}]
\* lambda: self.<k>(*args, ignores=ign)
ClosureKw(k, args, ign) == [k |-> k, args |-> args, kw |-> TRUE, ign |-> ign]
\* the bound method self.parse_name
ParseNameRule == [k |-> "parse_name"]
\* a grammar rule written like parse_name: @backtrackable @memoize def <name>
GrammarRule(name, body) == [k |-> "rule", name |-> name, body |-> body]
\* the tuple `ignores`, when it is passed as a positional argument
TupleObj(ign) == [k |-> "tuple", items |-> ign]
\* the Parser object, when it is passed as a positional argument
SelfObj == [k |-> "self"]

\* def parse_pair(self): return self.parse_all(self.parse_name, "=")
ParsePairRule ==
    GrammarRule("parse_pair",
                Closure("parse_all", <<ParseNameRule, Str("=")>>))

\* def expected(self): raise ParserError("expected", *self.get_line_info())
ExpectedRule == [k |-> "expected"]
\* lambda: self.alt("=", self.expected)
ExpectChoice == Closure("alt", <<Str("="), ExpectedRule>>)

Strings == {"x", "="}
SubPatterns == {Str(s) : s \in Strings} \cup {ParseNameRule}
ArgLists == UNION {[1..n -> SubPatterns] : n \in 0..MaxArgs}
\* the argument lists in which some sub-pattern can raise ParserError
RaisingPatterns == {ExpectedRule, ExpectChoice}
RaisingArgLists ==
    {args \in UNION {[1..n -> SubPatterns \cup RaisingPatterns] :
                        n \in 1..MaxArgs} :
        \E i \in DOMAIN args : args[i] \in RaisingPatterns}
IgnoreSets == {{Str("="), ParseNameRule}}
\* the calls of combinator k a caller can make
Calls(k) ==
    {Closure(k, args) : args \in ArgLists}
    \cup {ClosureKw(k, args, ign) : args \in ArgLists, ign \in IgnoreSets}

----------------------------------------------------------------------------
(* The session state threaded through one call *)

Triple(st) == <<st.cursor, st.row, st.column>>

Session ==
    [cursor |-> cursor, row |-> row, column |-> column, cache |-> cache,
     reads |-> 0, log |-> <<>>]

TokenAt(i) == tokens[i + 1]
tokens_length == Len(tokens)

\* def get_line_info(self)
get_line_info(st) == <<st.row, st.column>>

\* eat_token leaving row and column as they were
eat_token_keeps_line(st) ==
    IF st.cursor + 1 < tokens_length
    THEN [res |-> TupleV(st.cursor + 1, TokenAt(st.cursor + 1)),
          st  |-> [st EXCEPT !.cursor = @ + 1, !.reads = @ + 1]]
    ELSE [res |-> None, st |-> [st EXCEPT !.reads = @ + 1]]

\* def eat_token(self)
eat_token(st) ==
    IF st.cursor + 1 < tokens_length
    THEN LET c == st.cursor + 1
             token == TokenAt(c)
         IN  [res |-> TupleV(c, token),
              st  |-> [st EXCEPT !.cursor = c,
                                 !.column = token.column,
                                 !.row = token.row,
                                 !.reads = @ + 1]]
    ELSE [res |-> None, st |-> [st EXCEPT !.reads = @ + 1]]

\* consume_string taking the next token whatever its text
consume_string_any(string, st) ==
    IF st.cursor + 1 < tokens_length
    THEN LET token == TokenAt(st.cursor + 1)
         IN  [res |-> TupleV(st.cursor + 1, token),
              st  |-> [st EXCEPT !.cursor = @ + 1,
                                 !.column = token.column,
                                 !.row = token.row,
                                 !.reads = @ + 1]]
    ELSE [res |-> None, st |-> [st EXCEPT !.reads = @ + 1]]

\* def consume_string(self, string)
consume_string(string, st) ==
    IF st.cursor + 1 < tokens_length /\ TokenAt(st.cursor + 1).data = string
    THEN LET token == TokenAt(st.cursor + 1)
         IN  [res |-> TupleV(st.cursor + 1, token),
              st  |-> [st EXCEPT !.cursor = @ + 1,
                                 !.column = token.column,
                                 !.row = token.row,
                                 !.reads = @ + 1]]
    ELSE [res |-> None, st |-> [st EXCEPT !.reads = @ + 1]]

----------------------------------------------------------------------------
(* The record of one invocation, appended to the log when it exits *)

Event(layer, p, d, st, r, hit) ==
    [layer |-> layer, p |-> p, depth |-> d,
     pre |-> Triple(st), post |-> Triple(r.st),
     out |-> r.res, reads |-> r.st.reads - st.reads, hit |-> hit]

Logged(layer, p, d, st, r, hit) ==
    [res |-> r.res,
     st  |-> [r.st EXCEPT !.log = Append(@, Event(layer, p, d, st, r, hit))]]

----------------------------------------------------------------------------
(* The decorators *)

\* backtrackable.wrapper that puts back the cursor and forgets row and column
backtrackable_cursor_only(st, r) ==
    IF IsNone(r.res)
    THEN [res |-> r.res, st |-> [r.st EXCEPT !.cursor = st.cursor]]
    ELSE r

\* backtrackable.wrapper that puts back row and column and leaves the cursor
backtrackable_line_only(st, r) ==
    IF IsNone(r.res)
    THEN [res |-> r.res,
          st  |-> [r.st EXCEPT !.row = st.row, !.column = st.column]]
    ELSE r

\* backtrackable.wrapper that rewinds to the start of the stream
backtrackable_rewinds(st, r) ==
    IF IsNone(r.res)
    THEN [res |-> r.res,
          st  |-> [r.st EXCEPT !.cursor = -1, !.row = 0, !.column = -1]]
    ELSE r

\* backtrackable.wrapper: st is the state when the wrapper was entered, r
\* what the wrapped parser returned; an exception passes through untouched.
backtrackable(st, r) ==
    IF IsNone(r.res)
    THEN [res |-> r.res,
          st  |-> [r.st EXCEPT !.cursor = st.cursor,
                               !.row = get_line_info(st)[1],
                               !.column = get_line_info(st)[2]]]
    ELSE r

\* self.cache.get(cursor): the dict stored at cursor, or None; None and the
\* empty dict are both falsy and both stand as the empty function here.
CacheGet(c, pos) == IF pos \in DOMAIN c THEN c[pos] ELSE <<>>

Truthy(dict) == DOMAIN dict # {}

\* self.cache[cursor] = {parser_name: parser_result}
CacheReplace(c, pos, parser_name, parser_result) ==
    [q \in DOMAIN c \cup {pos} |->
        IF q = pos THEN [n \in {parser_name} |-> parser_result] ELSE c[q]]

\* self.cache[cursor][parser_name] = parser_result
CacheAdd(c, pos, parser_name, parser_result) ==
    [q \in DOMAIN c |->
        IF q = pos
        THEN [n \in DOMAIN c[q] \cup {parser_name} |->
                 IF n = parser_name THEN parser_result ELSE c[q][n]]
        ELSE c[q]]

\* parser.__name__
ParserName(parser) == IF parser.k = "parse_name" THEN "parse_name" ELSE parser.name

\* the body of parse_name, under its decorators
parse_name_body(st) ==
    LET payload == eat_token(st)
    IN  IF ~IsNone(payload.res) /\ payload.res.token.kind = "IDENTIFIER"
        THEN [res |-> IntV(payload.res.index), st |-> payload.st]
        ELSE [res |-> None, st |-> payload.st]

RECURSIVE Invoke(_, _, _)
RECURSIVE parse_all_loop(_, _, _, _, _, _)
RECURSIVE opt_more_loop(_, _, _, _, _)
RECURSIVE more_loop(_, _, _, _, _)
RECURSIVE alt_loop(_, _, _, _, _)

\* parser(self, *args) as memoize.wrapper calls it
RuleBody(parser, st, d) ==
    IF parser.k = "parse_name"
    THEN parse_name_body(st)
    ELSE Invoke(parser.body, st, d + 1)

\* what memoize.wrapper does with the result of a body that returned
MemoStore(parser, st, r) ==
    LET cur == st.cursor
        parser_name == ParserName(parser)
        cursor_key == CacheGet(st.cache, cur)
    IN  IF ~Truthy(cursor_key)
        THEN CacheReplace(r.st.cache, cur, parser_name, r.res)
        ELSE IF parser_name \in DOMAIN r.st.cache[cur]
             THEN r.st.cache
             ELSE CacheAdd(r.st.cache, cur, parser_name, r.res)

\* memoize.wrapper
memoize(parser, st, d) ==
    LET cur == st.cursor
        parser_name == ParserName(parser)
        cursor_key == CacheGet(st.cache, cur)
    IN  IF Truthy(cursor_key) /\ parser_name \in DOMAIN cursor_key
        THEN Logged("memoize", parser, d, st,
                    [res |-> cursor_key[parser_name], st |-> st], TRUE)
        ELSE LET r == RuleBody(parser, st, d)
             IN  IF IsRaise(r.res)
                 THEN Logged("memoize", parser, d, st, r, FALSE)
                 ELSE Logged("memoize", parser, d, st,
                             [res |-> r.res,
                              st  |-> [r.st EXCEPT
                                          !.cache = MemoStore(parser, st, r)]],
                             FALSE)

----------------------------------------------------------------------------
(* The combinators *)

\* the for loop of parse_all, from the i-th argument on
parse_all_loop(args, ignores, i, result, st, d) ==
    IF i > Len(args)
    THEN [res |-> ListV(result), st |-> st]
    ELSE LET arg == args[i]
             r == Invoke(arg, st, d + 1)
         IN  IF IsRaise(r.res) THEN r
             ELSE IF IsNone(r.res) THEN [res |-> None, st |-> r.st]
             ELSE parse_all_loop(args, ignores, i + 1,
                                 IF arg \notin ignores
                                 THEN Append(result, r.res) ELSE result,
                                 r.st, d)

\* parse_all without its @backtrackable
parse_all_undecorated(args, ignores, st, d) ==
    parse_all_loop(args, ignores, 1, <<>>, st, d)

\* @backtrackable def parse_all(self, *args, ignores=())
parse_all(args, ignores, st, d) ==
    backtrackable(st, parse_all_loop(args, ignores, 1, <<>>, st, d))

\* self.parse_all(*args, ignores): ignores is one more positional argument
ParseAllPositional(args, ignores) ==
    Closure("parse_all", Append(args, TupleObj(ignores)))

\* the while loop of opt_more
opt_more_loop(args, ignores, result, st, d) ==
    LET r == Invoke(ParseAllPositional(args, ignores), st, d + 1)
    IN  IF IsRaise(r.res) THEN r
        ELSE IF IsNone(r.res) THEN [res |-> r.res, st |-> r.st]
        ELSE opt_more_loop(args, ignores, Append(result, r.res), r.st, d)

\* @backtrackable def opt_more(self, *args, ignores=())
opt_more(args, ignores, st, d) ==
    backtrackable(st, opt_more_loop(args, ignores, <<>>, st, d))

\* the while loop of more
more_loop(args, ignores, result, st, d) ==
    LET r == Invoke(ParseAllPositional(args, ignores), st, d + 1)
    IN  IF IsRaise(r.res) THEN r
        ELSE IF IsNone(r.res) THEN [res |-> None, st |-> r.st]
        ELSE more_loop(args, ignores, Append(result, r.res), r.st, d)

\* @backtrackable def more(self, *args, ignores=())
more(args, ignores, st, d) ==
    backtrackable(st, more_loop(args, ignores, <<>>, st, d))

RECURSIVE alt_every(_, _, _, _, _, _)
\* the for loop of alt without its break: the last success is kept
alt_every(args, ignores, i, result, st, d) ==
    IF i > Len(args)
    THEN [res |-> result, st |-> st]
    ELSE LET arg == args[i]
             r == Invoke(arg, st, d + 1)
         IN  IF IsRaise(r.res) THEN r
             ELSE alt_every(args, ignores, i + 1,
                            IF ~IsNone(r.res) /\ arg \notin ignores
                            THEN r.res ELSE result,
                            r.st, d)

\* alt whose loop does not stop at the first success
alt_no_break(args, ignores, st, d) ==
    backtrackable(st, alt_every(args, ignores, 1, None, st, d))

RECURSIVE alt_loop_catches(_, _, _, _, _)
\* the for loop of alt taking an exception of an alternative for a failure
alt_loop_catches(args, ignores, i, st, d) ==
    IF i > Len(args)
    THEN [res |-> None, st |-> st]
    ELSE LET arg == args[i]
             r == Invoke(arg, st, d + 1)
         IN  IF IsMatch(r.res)
             THEN [res |-> IF arg \notin ignores THEN r.res ELSE None,
                   st  |-> r.st]
             ELSE alt_loop_catches(args, ignores, i + 1, r.st, d)

\* the for loop of alt giving up at the first alternative that fails
alt_loop_gives_up(args, ignores, i, st, d) ==
    IF i > Len(args)
    THEN [res |-> None, st |-> st]
    ELSE LET arg == args[i]
             r == Invoke(arg, st, d + 1)
         IN  IF IsRaise(r.res) THEN r
             ELSE [res |-> IF arg \notin ignores THEN r.res ELSE None,
                   st  |-> r.st]

\* the for loop of alt, from the i-th argument on
alt_loop(args, ignores, i, st, d) ==
    IF i > Len(args)
    THEN [res |-> None, st |-> st]
    ELSE LET arg == args[i]
             r == Invoke(arg, st, d + 1)
         IN  IF IsRaise(r.res) THEN r
             ELSE IF ~IsNone(r.res)
                  THEN [res |-> IF arg \notin ignores THEN r.res ELSE None,
                        st  |-> r.st]
                  ELSE alt_loop(args, ignores, i + 1, r.st, d)

\* @backtrackable def alt(self, *args, ignores=())
alt(args, ignores, st, d) ==
    backtrackable(st, alt_loop(args, ignores, 1, st, d))

\* self.parse_all(*args, ignores), as opt_more and more call it
ParseAllWithoutSelf(args, ignores) == ParseAllPositional(args, ignores)

\* self.parse_all(self, *args, ignores)
ParseAllWithSelf(args, ignores) ==
    Closure("parse_all", <<SelfObj>> \o Append(args, TupleObj(ignores)))

\* the "revert parser state" lines of and_ and not_
Revert(st, after) ==
    [after EXCEPT !.cursor = st.cursor,
                  !.row = get_line_info(st)[1],
                  !.column = get_line_info(st)[2]]

\* def and_(self, *args, ignores=())
and_(args, ignores, st, d) ==
    LET r == Invoke(ParseAllWithSelf(args, ignores), st, d + 1)
    IN  IF IsRaise(r.res) THEN r
        ELSE [res |-> r.res, st |-> Revert(st, r.st)]

\* def not_(self, *args, ignores=())
not_(args, ignores, st, d) ==
    LET r == Invoke(ParseAllWithSelf(args, ignores), st, d + 1)
    IN  IF IsRaise(r.res) THEN r
        ELSE [res |-> IF ~IsNone(r.res) THEN None ELSE TrueV,
              st  |-> Revert(st, r.st)]

\* the callable expected: it raises where the session stands
expected(st) ==
    [res |-> ParserErrorV(get_line_info(st)), st |-> st]

\* parse_name without @backtrackable
parse_name_not_backtrackable(parser, st, d) ==
    memoize(parser, st, d)

\* @backtrackable @memoize def parse_name(self), and any rule written like it
parse_name(parser, st, d) ==
    backtrackable(st, memoize(parser, st, d))

\* the combinators bound to backtrackable.wrapper(self, *args), which takes
\* no keyword argument
Decorated == {"parse_all", "opt_more", "more", "alt"}

\* One invocation: consume_string for a string, arg() for anything else
\* (lines 160-163 and 226-229).  Calling an object that is not callable, or
\* passing ignores= to a wrapper that takes no keyword, raises TypeError.
Invoke(p, st, d) ==
    LET r == CASE p.k = "str"        -> consume_string(p.s, st)
               [] p.k = "eat_token"  -> eat_token(st)
               [] p.k = "parse_name" -> parse_name(p, st, d)
               [] p.k = "rule"       -> parse_name(p, st, d)
               [] p.k = "expected"   -> expected(st)
               [] p.k \in Decorated /\ p.kw
                                     -> [res |-> Raise("TypeError"), st |-> st]
               [] p.k = "parse_all"  -> parse_all(p.args, p.ign, st, d)
               [] p.k = "opt_more"   -> opt_more(p.args, p.ign, st, d)
               [] p.k = "more"       -> more(p.args, p.ign, st, d)
               [] p.k = "alt"        -> alt(p.args, p.ign, st, d)
               [] p.k = "and_"       -> and_(p.args, p.ign, st, d)
               [] p.k = "not_"       -> not_(p.args, p.ign, st, d)
               [] OTHER              -> [res |-> Raise("TypeError"), st |-> st]
    IN  Logged("call", p, d, st, r, FALSE)

----------------------------------------------------------------------------
(* What the session has seen of its memoized rules *)

\* the memo key of a memoize event: (cursor at entry, parser.__name__)
MemoKey(e) == <<e.pre[1], ParserName(e.p)>>

IsMemoEvent(e) == e.layer = "memoize" /\ ~IsRaise(e.out)

RECURSIVE HistoryAfter(_, _, _)
\* the history h extended by the events lg[i], lg[i+1], ...
HistoryAfter(h, lg, i) ==
    IF i > Len(lg) THEN h
    ELSE IF ~IsMemoEvent(lg[i]) THEN HistoryAfter(h, lg, i + 1)
    ELSE LET e == lg[i]
             key == MemoKey(e)
             ran == IF e.hit THEN 0 ELSE 1
             h2 == [x \in DOMAIN h \cup {key} |->
                      IF x # key THEN h[x]
                      ELSE IF key \in DOMAIN h
                           THEN [h[key] EXCEPT !.runs = @ + ran]
                           ELSE [first |-> e.out, runs |-> ran]]
         IN  HistoryAfter(h2, lg, i + 1)

----------------------------------------------------------------------------
(* The session as a state machine: the caller invokes one operation of the *)
(* Parser at a time and then drops what it returned.                       *)

NoCall == [k |-> "none"]

\* Parser.__init__
Init ==
    /\ \E n \in 0..MaxTokens :
         \E body \in [1..n -> TokenAlphabet] : tokens = TokenStream(body)
    /\ cursor = -1
    /\ row = 0
    /\ column = -1
    /\ cache = <<>>
    /\ pc = "ready"
    /\ call = NoCall
    /\ pre = [cursor |-> -1, row |-> 0, column |-> -1, cache |-> <<>>,
              history |-> <<>>]
    /\ outcome = None
    /\ log = <<>>
    /\ history = <<>>

\* the caller invokes p on the session and is handed its outcome
Returns(p) ==
    LET r == Invoke(p, Session, 0)
    IN  /\ cursor' = r.st.cursor
        /\ row' = r.st.row
        /\ column' = r.st.column
        /\ cache' = r.st.cache
        /\ outcome' = r.res
        /\ log' = r.st.log
        /\ pc' = "returned"
        /\ call' = p
        /\ history' = HistoryAfter(history, r.st.log, 1)
        /\ pre' = [cursor |-> cursor, row |-> row, column |-> column,
                   cache |-> cache, history |-> history]
        /\ UNCHANGED tokens

\* parser.eat_token()
EatToken ==
    /\ pc = "ready"
    /\ Returns([k |-> "eat_token"])

\* parser.consume_string(s)
ConsumeString ==
    /\ pc = "ready"
    /\ \E s \in Strings : Returns(Str(s))

\* parser.parse_all(*args) or parser.parse_all(*args, ignores=ign)
ParseAll ==
    /\ pc = "ready"
    /\ \E p \in Calls("parse_all") : Returns(p)

\* parser.opt_more(*args) or parser.opt_more(*args, ignores=ign)
OptMore ==
    /\ pc = "ready"
    /\ \E p \in Calls("opt_more") : Returns(p)

\* parser.more(*args) or parser.more(*args, ignores=ign)
More ==
    /\ pc = "ready"
    /\ \E p \in Calls("more") : Returns(p)

\* parser.alt(*args) or parser.alt(*args, ignores=ign)
Alt ==
    /\ pc = "ready"
    /\ \E p \in Calls("alt") : Returns(p)

\* parser.and_(*args) or parser.and_(*args, ignores=ign)
And ==
    /\ pc = "ready"
    /\ \E p \in Calls("and_") : Returns(p)

\* parser.not_(*args) or parser.not_(*args, ignores=ign)
Not ==
    /\ pc = "ready"
    /\ \E p \in Calls("not_") : Returns(p)

\* parser.parse_name()
ParseName ==
    /\ pc = "ready"
    /\ Returns(ParseNameRule)

\* parser.parse_pair(), for a grammar that adds the rule parse_pair
ParsePair ==
    /\ pc = "ready"
    /\ Returns(ParsePairRule)

\* the caller is done with the outcome of its last call
Resume ==
    /\ pc = "returned"
    /\ pc' = "ready"
    /\ call' = NoCall
    /\ pre' = [cursor |-> cursor, row |-> row, column |-> column,
               cache |-> cache, history |-> history]
    /\ outcome' = None
    /\ log' = <<>>
    /\ UNCHANGED <<tokens, cursor, row, column, cache, history>>

Next ==
    \/ EatToken
    \/ ConsumeString
    \/ ParseAll
    \/ OptMore
    \/ More
    \/ Alt
    \/ And
    \/ Not
    \/ ParseName
    \/ Resume

\* The engine as the repository has it: parse_name is the only rule.
Spec == Init /\ [][Next]_vars

\* The engine under a grammar that has a second rule, parse_pair, written
\* like parse_name and calling it.
NextRules == Next \/ ParsePair

SpecRules == Init /\ [][NextRules]_vars

\* a combinator called on sub-patterns of which one can raise ParserError
RaisingCall ==
    /\ pc = "ready"
    /\ \E k \in Decorated : \E args \in RaisingArgLists :
           Returns(Closure(k, args))

\* the session of a grammar whose callables can raise ParserError
NextErrors == Next \/ RaisingCall

SpecErrors == Init /\ [][NextErrors]_vars

----------------------------------------------------------------------------
(* Vocabulary of the properties *)

Returned == pc = "returned"

\* the session as it was when the last call was entered
PreSession ==
    [cursor |-> pre.cursor, row |-> pre.row, column |-> pre.column,
     cache |-> pre.cache, reads |-> 0, log |-> <<>>]

Now == <<cursor, row, column>>
Before == <<pre.cursor, pre.row, pre.column>>

\* the operations bound to backtrackable.wrapper
Backtrackables == Decorated \cup {"parse_name", "rule"}

IsCallOf(e, ks) == e.layer = "call" /\ e.p.k \in ks

\* the events of the invocations made inside the invocation log[j]
Inside(j) ==
    {i \in 1..(j - 1) : \A m \in i..(j - 1) : log[m].depth > log[j].depth}

\* the invocations of the sub-patterns of log[j], in order
Children(j) ==
    {i \in Inside(j) : log[i].layer = "call" /\ log[i].depth = log[j].depth + 1}

----------------------------------------------------------------------------
(* C1: backtracking purity.  Every invocation of parse_all, opt_more, more, *)
(* alt or parse_name that returns None, at any depth of a call, leaves     *)
(* (cursor, row, column) as they were when it was entered.                 *)

C1_BacktrackingPurity ==
    Returned =>
        \A j \in 1..Len(log) :
            (IsCallOf(log[j], Backtrackables) /\ IsNone(log[j].out))
                => log[j].post = log[j].pre

\* a sequence that consumed a token, then failed and was put back
C1_Witness ==
    /\ Returned
    /\ call.k = "parse_all"
    /\ IsNone(outcome)
    /\ \E i \in Children(Len(log)) : log[i].post[1] > pre.cursor
    /\ pre.cursor >= 0
    /\ Now = Before

----------------------------------------------------------------------------
(* C2: memoization transparency.  Whenever a memoized rule is invoked at a *)
(* position where it was invoked before in the session, it returns the     *)
(* outcome of the first invocation, and it is served from the cache: the   *)
(* rule body does not run and no token is read.                            *)

\* log[i] is an invocation of a memoized rule at a position where the rule
\* was invoked before, in an earlier call or earlier in this one
InvokedBefore(i) ==
    \/ MemoKey(log[i]) \in DOMAIN pre.history
    \/ \E j \in 1..(i - 1) :
          IsMemoEvent(log[j]) /\ MemoKey(log[j]) = MemoKey(log[i])

\* what the first invocation with the memo key of log[i] returned
FirstOutcome(i) ==
    IF MemoKey(log[i]) \in DOMAIN pre.history
    THEN pre.history[MemoKey(log[i])].first
    ELSE LET j == CHOOSE j \in 1..i :
                    /\ IsMemoEvent(log[j])
                    /\ MemoKey(log[j]) = MemoKey(log[i])
                    /\ \A m \in 1..(j - 1) :
                          ~(IsMemoEvent(log[m]) /\ MemoKey(log[m]) = MemoKey(log[i]))
         IN  log[j].out

C2_MemoizationTransparency ==
    Returned =>
        \A i \in 1..Len(log) :
            (IsMemoEvent(log[i]) /\ InvokedBefore(i))
                => /\ log[i].out = FirstOutcome(i)
                   /\ log[i].hit
                   /\ log[i].reads = 0

----------------------------------------------------------------------------
(* C3: sequence atomicity.  When a sub-pattern of a parse_all invocation   *)
(* returns None, the invocation returns None and leaves (cursor, row,      *)
(* column) as they were at its entry.                                      *)

C3_SequenceAtomicity ==
    Returned =>
        \A j \in 1..Len(log) :
            (/\ IsCallOf(log[j], {"parse_all"})
             /\ \E i \in Children(j) : IsNone(log[i].out))
                => /\ IsNone(log[j].out)
                   /\ log[j].post = log[j].pre

\* the first sub-pattern consumed a token, the second one failed
C3_Witness ==
    /\ Returned
    /\ call.k = "parse_all"
    /\ Len(call.args) = 2
    /\ \E i, j \in Children(Len(log)) :
          /\ i < j
          /\ IsMatch(log[i].out)
          /\ log[i].post[1] = pre.cursor + 1
          /\ IsNone(log[j].out)
    /\ IsNone(outcome)
    /\ Now = Before

----------------------------------------------------------------------------
(* C4: ordered choice, first match.  When alt is called with two           *)
(* alternatives and no ignore set, and each of them would match at the     *)
(* position of the call, alt returns what the first one returns and leaves *)
(* the cursor where the first one leaves it.                               *)

\* what the n-th alternative of the last call does at the position of the call
Alone(n) == Invoke(call.args[n], PreSession, 1)

C4_FirstMatch ==
    (/\ Returned
     /\ call.k = "alt"
     /\ ~call.kw
     /\ Len(call.args) = 2
     /\ IsMatch(Alone(1).res)
     /\ IsMatch(Alone(2).res))
        => /\ outcome = Alone(1).res
           /\ Now = Triple(Alone(1).st)

\* both alternatives match, with different results
C4_Witness ==
    /\ Returned
    /\ call.k = "alt"
    /\ ~call.kw
    /\ Len(call.args) = 2
    /\ IsMatch(Alone(1).res)
    /\ IsMatch(Alone(2).res)
    /\ Alone(1).res # Alone(2).res
    /\ outcome = Alone(1).res
    /\ cursor = pre.cursor + 1

----------------------------------------------------------------------------
(* C5: lookahead non-consumption.  After a call of and_ or not_, however   *)
(* it ends, (cursor, row, column) are what they were before the call.      *)

Sequence == Invoke(Closure("parse_all", call.args), PreSession, 1)

----------------------------------------------------------------------------
(* C6: zero-or-more totality.  opt_more, called without an ignore set,     *)
(* never returns None: it returns a list, which starts with the result of  *)
(* the first iteration when the sequence matches at the position of the    *)
(* call, and which is empty, with (cursor, row, column) unchanged, when    *)
(* the sequence does not match there.                                      *)

C6_ZeroOrMoreTotality ==
    (Returned /\ call.k = "opt_more" /\ ~call.kw)
        => /\ outcome.tag = "List"
           /\ IsMatch(Sequence.res)
                 => /\ Len(outcome.items) >= 1
                    /\ outcome.items[1] = Sequence.res
           /\ IsNone(Sequence.res)
                 => /\ outcome = ListV(<<>>)
                    /\ Now = Before

----------------------------------------------------------------------------
(* C7: one-or-more.  more, called without an ignore set, returns None with *)
(* (cursor, row, column) unchanged exactly when the sequence does not      *)
(* match at the position of the call; when it matches there, more returns  *)
(* a non-empty list that starts with the result of that first iteration    *)
(* and leaves the cursor at or after the end of it.                        *)

C7_OneOrMore ==
    (Returned /\ call.k = "more" /\ ~call.kw)
        => /\ IsNone(Sequence.res) <=> (IsNone(outcome) /\ Now = Before)
           /\ IsMatch(Sequence.res)
                 => /\ outcome.tag = "List"
                    /\ Len(outcome.items) >= 1
                    /\ outcome.items[1] = Sequence.res
                    /\ cursor >= Sequence.st.cursor

----------------------------------------------------------------------------
(* C8: negative lookahead.  not_ returns True exactly when the sequence of *)
(* its sub-patterns does not match at the position of the call, and None   *)
(* exactly when it matches there.                                          *)

C8_NegativeLookahead ==
    (Returned /\ call.k = "not_")
        => /\ outcome = TrueV <=> IsNone(Sequence.res)
           /\ IsNone(outcome) <=> IsMatch(Sequence.res)

----------------------------------------------------------------------------
(* C9: positive lookahead.  and_, called without an ignore set, returns    *)
(* what the sequence of its sub-patterns returns at the position of the    *)
(* call when it matches there, and None when it does not.                  *)

C9_PositiveLookahead ==
    (Returned /\ call.k = "and_" /\ ~call.kw)
        => /\ IsMatch(Sequence.res) => outcome = Sequence.res
           /\ IsNone(Sequence.res) => IsNone(outcome)

----------------------------------------------------------------------------
(* C10: sequence result.  When every sub-pattern of a parse_all call       *)
(* matches, one after the other from the position of the call, parse_all   *)
(* returns the list of the results of the sub-patterns that are not in the *)
(* ignore set, in order, and leaves the cursor where the last sub-pattern  *)
(* left it (where it was, for a call without sub-patterns).                *)

RECURSIVE Each(_, _, _, _)
\* what the sub-patterns args[i], args[i+1], ... do one after the other
\* from st, up to the first one that does not match
Each(args, i, st, done) ==
    IF i > Len(args) THEN done
    ELSE LET r == Invoke(args[i], st, 1)
         IN  IF IsMatch(r.res)
             THEN Each(args, i + 1, r.st, Append(done, r))
             ELSE done

RECURSIVE Kept(_, _, _, _)
\* the results of the sub-patterns that are not in ign, from the i-th on
Kept(args, ign, each, i) ==
    IF i > Len(args) THEN <<>>
    ELSE IF args[i] \in ign
         THEN Kept(args, ign, each, i + 1)
         ELSE <<each[i].res>> \o Kept(args, ign, each, i + 1)

C10_SequenceResult ==
    (Returned /\ call.k = "parse_all")
        => LET each == Each(call.args, 1, PreSession, <<>>)
           IN  Len(each) = Len(call.args)
                  => /\ outcome = ListV(Kept(call.args, call.ign, each, 1))
                     /\ Now = IF each = <<>> THEN Before
                              ELSE Triple(each[Len(each)].st)

----------------------------------------------------------------------------
(* C11: ordered choice, failure.  A call of alt, with or without an ignore *)
(* set, returns None only when every alternative returns None at the       *)
(* position of the call, and then (cursor, row, column) are what they were *)
(* before the call; when some alternative matches there, the call does not *)
(* return None.                                                            *)

----------------------------------------------------------------------------
(* C12: the advance primitive.  When cursor + 1 is the index of a token,   *)
(* eat_token moves the cursor forward by exactly one, sets row and column  *)
(* to that token's and returns the pair of the new index and the token;    *)
(* when no token remains, the empty stream included, it returns None and   *)
(* leaves cursor, row and column unchanged.                                *)

C12_EatToken ==
    (Returned /\ call.k = "eat_token")
        => IF pre.cursor + 1 < tokens_length
           THEN /\ cursor = pre.cursor + 1
                /\ row = TokenAt(cursor).row
                /\ column = TokenAt(cursor).column
                /\ outcome = TupleV(cursor, TokenAt(cursor))
           ELSE /\ outcome = None
                /\ Now = Before

\* eat_token took the second token of the stream
C12_Witness ==
    /\ Returned
    /\ call.k = "eat_token"
    /\ pre.cursor = 0
    /\ cursor = 1
    /\ IsMatch(outcome)

----------------------------------------------------------------------------
(* C13: the literal primitive.  Every invocation of consume_string(text),  *)
(* by the caller or as a sub-pattern of a combinator, advances the cursor  *)
(* by exactly one, sets row and column to the token's and returns the pair *)
(* of the new index and the token exactly when a token exists at           *)
(* cursor + 1 and its text equals text; in every other case it returns     *)
(* None and leaves cursor, row and column untouched.                       *)

C13_ConsumeString ==
    Returned =>
        \A i \in 1..Len(log) :
            IsCallOf(log[i], {"str"}) =>
                LET e == log[i]
                    next == e.pre[1] + 1
                IN  IF next < tokens_length /\ TokenAt(next).data = e.p.s
                    THEN /\ e.post = <<next, TokenAt(next).row,
                                       TokenAt(next).column>>
                         /\ e.out = TupleV(next, TokenAt(next))
                    ELSE /\ e.out = None
                         /\ e.post = e.pre

\* consume_string met a token of another text past the first token
C13_Witness ==
    /\ Returned
    /\ call.k = "str"
    /\ pre.cursor = 0
    /\ tokens_length = 2
    /\ TokenAt(1).data # call.s
    /\ outcome = None
    /\ Now = Before

----------------------------------------------------------------------------
(* C14: memo table monotonicity.  history holds, for every (position,      *)
(* rule) whose memoize.wrapper returned, the outcome of the first return,  *)
(* which the wrapper had stored in the cache.  In every state, each such   *)
(* entry is still in the cache, with that outcome: no entry is removed,    *)
(* none is replaced by another outcome, also when a memoized rule invokes  *)
(* another memoized rule at the same position.                             *)

C14_MemoTableMonotonic ==
    \A key \in DOMAIN history :
        /\ key[1] \in DOMAIN cache
        /\ key[2] \in DOMAIN cache[key[1]]
        /\ cache[key[1]][key[2]] = history[key].first

----------------------------------------------------------------------------
(* C15: at-most-once computation.  For every (position, rule), the body of *)
(* the rule has run at most once since the session began, however often    *)
(* the rule was invoked at that position and however the rules nest.       *)

C15_AtMostOnce ==
    \A key \in DOMAIN history : history[key].runs <= 1

----------------------------------------------------------------------------
(* C16: propagation of ParserError.  When an invocation made inside        *)
(* parse_all, alt, more or opt_more raises ParserError, no other           *)
(* sub-pattern is invoked afterwards (no further alternative, element or   *)
(* iteration): every invocation that exits after it encloses it and exits  *)
(* with the same error, and the caller of the session receives that error. *)

C16_ErrorPropagation ==
    Returned =>
        \A i \in 1..Len(log) :
            IsParserError(log[i].out)
                => /\ outcome = log[i].out
                   /\ \A j \in (i + 1)..Len(log) :
                         /\ log[j].depth < log[i].depth
                         /\ log[j].out = log[i].out

\* alt(expected, p) where p alone matches: the caller received the error of
\* expected, and p was not invoked
C16_Witness ==
    /\ Returned
    /\ call.k = "alt"
    /\ Len(call.args) = 2
    /\ call.args[1] = ExpectedRule
    /\ IsMatch(Alone(2).res)
    /\ IsParserError(outcome)
    /\ Cardinality(Children(Len(log))) = 1

----------------------------------------------------------------------------
(* C17: ordered choice retries from the same start.  In every invocation   *)
(* of alt, at any depth, each alternative is invoked with (cursor, row,    *)
(* column) equal to their value when alt was entered: an alternative that  *)
(* failed leaves no movement behind.                                       *)

C17_AltSameStart ==
    Returned =>
        \A j \in 1..Len(log) :
            IsCallOf(log[j], {"alt"}) =>
                \A i \in Children(j) : log[i].pre = log[j].pre

\* alt(parse_name, "=") on an operator: parse_name read the token and failed,
\* and the literal then matched that same token
C17_Witness ==
    /\ Returned
    /\ call.k = "alt"
    /\ ~call.kw
    /\ call.args = <<ParseNameRule, Str("=")>>
    /\ \E i \in Children(Len(log)) :
          /\ log[i].p = ParseNameRule
          /\ log[i].reads = 1
          /\ IsNone(log[i].out)
    /\ IsMatch(outcome)
    /\ cursor = pre.cursor + 1

\* the example of the claim, the literal "=" standing for "y": on the stream
\* [IDENTIFIER x], alt("=", parse_name) succeeds by its second alternative
C17_Example ==
    /\ Returned
    /\ tokens = TokenStream(<<[kind |-> "IDENTIFIER", data |-> "x"]>>)
    /\ call = Closure("alt", <<Str("="), ParseNameRule>>)
    /\ pre.cursor = -1
    /\ outcome = IntV(0)
    /\ cursor = 0

----------------------------------------------------------------------------
\* parse_name decorated by @backtrackable alone, entered at (cursor, row,
\* column) = entry
parse_name_unmemoized(entry) ==
    LET st == [cursor |-> entry[1], row |-> entry[2], column |-> entry[3],
               cache |-> <<>>, reads |-> 0, log |-> <<>>]
    IN  backtrackable(st, parse_name_body(st))

(* C18: memoized and un-memoized parsing are equivalent.  Every invocation *)
(* of parse_name, by the caller or as a sub-pattern, returns the outcome   *)
(* and leaves the (cursor, row, column) that the rule without @memoize,    *)
(* backtrackable around its body, gives from the same entry state; so an   *)
(* invocation served from the cache leaves the cursor where the first      *)
(* computation left it.                                                    *)

C18_MemoEquivalence ==
    Returned =>
        \A i \in 1..Len(log) :
            IsCallOf(log[i], {"parse_name"}) =>
                LET plain == parse_name_unmemoized(log[i].pre)
                IN  /\ log[i].out = plain.res
                    /\ log[i].post = Triple(plain.st)

----------------------------------------------------------------------------
(* C19: row and column track the cursor.  In every state of the session,   *)
(* whatever operations were called before: when cursor >= 0, (row, column) *)
(* are the row and column of tokens[cursor]; when cursor = -1 they are     *)
(* (0, -1).                                                                *)

C19_LineTracksCursor ==
    /\ cursor >= 0
          => /\ row = TokenAt(cursor).row
             /\ column = TokenAt(cursor).column
    /\ cursor = -1 => (row = 0 /\ column = -1)

\* a call that started before the first token, consumed two tokens, failed
\* and came back
C19_Witness ==
    /\ Returned
    /\ call.k \in Backtrackables
    /\ pre.cursor = -1
    /\ \E i \in 1..Len(log) : log[i].post[1] = 1
    /\ IsNone(outcome)
    /\ Now = <<-1, 0, -1>>

----------------------------------------------------------------------------
(* C20: cursor bounds and forward-only net movement.  In every state       *)
(* -1 <= cursor <= len(tokens) - 1, and every invocation that exits, at    *)
(* any depth, exits with the cursor at or after the value it had when the  *)
(* invocation was entered.                                                 *)

C20_CursorBounds ==
    /\ -1 <= cursor
    /\ cursor <= tokens_length - 1
    /\ \A i \in 1..Len(log) :
          /\ log[i].post[1] >= log[i].pre[1]
          /\ log[i].post[1] <= tokens_length - 1

\* a call that started at the first token, consumed the second, failed and
\* came back to the first
C20_Witness ==
    /\ Returned
    /\ call.k \in Backtrackables
    /\ pre.cursor = 0
    /\ \E i \in 1..Len(log) : log[i].post[1] = 1
    /\ IsNone(outcome)
    /\ cursor = 0

====
